---- MODULE Spec2Model ----
(***************************************************************************)
(* talk-glide: the conversation / message synchronisation model.          *)
(*                                                                         *)
(* The backend is the relational store of the migration (conversations,   *)
(* conversation_members, messages).  Every client call is one round trip  *)
(* that either succeeds or fails (data = null / error set); each `await`  *)
(* of a handler is one step, so handlers of different clients interleave. *)
(* The row-level security policies (migration lines 60-110) are not        *)
(* evaluated: the backend grants each call of the handlers the rows it asks *)
(* for, and a refusal is one of the ways a call takes its ok = FALSE        *)
(* branch.  What the properties say of a call that succeeds is therefore    *)
(* said under the policies letting that call through.                       *)
(***************************************************************************)
EXTENDS Integers, Sequences, FiniteSets, TLC

\* ------------------------------------------------------------------ bounds
MaxConvs == 2        \* conversation rows the store may hold
MaxTime == 2         \* last value of the server clock NOW()
MaxMsgs == 2         \* message rows the store may hold
MaxInflight == 2     \* loadMessages requests one ChatWindow has in flight

\* ------------------------------------------------------------- vocabulary
Users == {"u1", "u2", "u3"}      \* the profiles
Clients == Users                 \* every identity has a mounted Index page
NoConv == 0                       \* selectedConversationId = null
NullName == <<"null">>            \* conversations.name IS NULL
ConvIds == 1..MaxConvs

\* Text is a sequence of characters; " " is the only whitespace character.
Texts == {<<>>, <<" ">>, <<" ", "P", " ">>}

IsSpace(ch) == ch = " "

RECURSIVE TrimStart(_)
TrimStart(s) ==
    IF s # <<>> /\ IsSpace(Head(s)) THEN TrimStart(Tail(s)) ELSE s

RECURSIVE TrimEnd(_)
TrimEnd(s) ==
    IF s # <<>> /\ IsSpace(s[Len(s)]) THEN TrimEnd(SubSeq(s, 1, Len(s) - 1)) ELSE s

\* String.prototype.trim
Trim(s) == TrimEnd(TrimStart(s))

\* ------------------------------------------------------------------ state
VARIABLES
    now,             \* server clock, NOW()
    conversations,   \* table conversations: set of rows
    members,         \* table conversation_members: set of rows
    messages,        \* table messages: set of rows
    requested,       \* per inserted conversation: the user ids its handler batches
    selected,        \* Index.selectedConversationId, per client
    chat,            \* NewChatDialog per client: open, loading, handleCreateChat position
    group,           \* NewGroupDialog per client
    sidebar,         \* ChatSidebar per client: conversations, loadConversations position
    feed,            \* ChatWindow per client
    lastEvent,       \* the toast of the last handler call that was rejected or
                     \* failed, until the next edit of an input
    auth             \* Index per client: the browser's session, the page's
                     \* subscription, user and loading, checkAuth position

vars == <<now, conversations, members, messages, requested, selected, chat, group,
          sidebar, feed, lastEvent, auth>>

storeVars == <<now, conversations, members, messages, requested>>

\* ------------------------------------------------------------ the backend
ConvRow(id, name, isGroup, by, t) ==
    [id |-> id, name |-> name, is_group |-> isGroup, created_by |-> by,
     created_at |-> t, updated_at |-> t]

\* a membership row as a client submits it (id is filled in by the store)
MemberRow(c, u) == [conversation_id |-> c, user_id |-> u]

\* the rows the store holds for a batch inserted after `base` rows: each gets
\* an id of its own (id UUID PRIMARY KEY DEFAULT gen_random_uuid())
Stored(batch, base) ==
    {[id |-> base + i, conversation_id |-> batch[i].conversation_id,
      user_id |-> batch[i].user_id] : i \in DOMAIN batch}

\* UNIQUE(conversation_id, user_id): the statement is refused when two of its
\* rows, or one of them and a stored row, have the same pair
UniqueAllows(batch) ==
    /\ \A i, j \in DOMAIN batch : i # j => batch[i] # batch[j]
    /\ \A i \in DOMAIN batch : \A m \in members :
           ~(m.conversation_id = batch[i].conversation_id /\ m.user_id = batch[i].user_id)

\* gen_random_uuid(): an id no row holds yet
FreshConvId == Cardinality(conversations) + 1

\* insert into conversation_members values (batch)
InsertMembers(batch) == members \cup Stored(batch, Cardinality(members))

\* select user_id from conversation_members where conversation_id = c
MembersOf(c) == {m.user_id : m \in {r \in members : r.conversation_id = c}}

\* select conversation_id from conversation_members where user_id = u
ConversationsOfUser(u) == {m.conversation_id : m \in {r \in members : r.user_id = u}}

\* NOW() at the time a statement runs: the clock never goes back
Clock(t) == t \in now..MaxTime /\ t <= now + 1

\* the sequences that list every element of the set rows once
RECURSIVE Listings(_)
Listings(rows) ==
    IF rows = {} THEN {<<>>}
    ELSE UNION {{<<r>> \o s : s \in Listings(rows \ {r})} : r \in rows}

\* ------------------------------------------- ChatSidebar: change events
\* useState: conversations [].  pc and ids are the position of the
\* loadConversations call in flight.  channel says that the events of the
\* "conversations-changes" subscription are delivered one by one (notif: the
\* events waiting for the handler); the specifications that let
\* loadConversations run at any moment leave it FALSE.
SidebarIdle == [conversations |-> <<>>, pc |-> "idle", ids |-> {}, channel |-> FALSE,
                notif |-> 0]

\* postgres_changes, event "*", table conversations: an INSERT or UPDATE of a
\* conversations row reaches every subscribed sidebar
ConversationsChanged(sb) ==
    [v \in DOMAIN sb |-> IF sb[v].channel THEN [sb[v] EXCEPT !.notif = @ + 1]
                         ELSE sb[v]]

\* ---------------------------------------------------------- NewChatDialog
\* known and failed are not state of the dialog: for the call in flight, known
\* records the direct conversations of the pair that were complete when the
\* call began, and failed that one of its lookup queries returned an error.
ChatIdle == [open |-> FALSE, loading |-> FALSE, pc |-> "idle", other |-> "u1",
             scan |-> {}, newId |-> NoConv, known |-> {}, failed |-> FALSE]

\* the non-group conversations whose membership is exactly the pair
DirectsOf(a, b) ==
    {c.id : c \in {r \in conversations : ~r.is_group /\ MembersOf(r.id) = {a, b}}}

\* Index: onNewChat = () => setNewChatOpen(true)
OpenNewChat(u) ==
    /\ ~chat[u].open
    /\ chat[u].pc = "idle"
    /\ chat' = [chat EXCEPT ![u].open = TRUE]
    /\ UNCHANGED <<auth, storeVars, selected, group, sidebar, feed, lastEvent>>

\* handleCreateChat(otherUserId): setLoading(true), first query issued.
\* The user buttons list profiles with id # currentUserId and are disabled
\* while loading.
CreateChatStart(u, other) ==
    /\ chat[u].open
    /\ ~chat[u].loading
    /\ chat[u].pc = "idle"
    /\ other # u
    /\ chat' = [chat EXCEPT ![u] = [@ EXCEPT !.loading = TRUE, !.pc = "lookup",
                                              !.other = other, !.scan = {},
                                              !.newId = NoConv,
                                              !.known = DirectsOf(u, other),
                                              !.failed = FALSE]]
    /\ UNCHANGED <<auth, storeVars, selected, group, sidebar, feed, lastEvent>>

\* the query for the caller's memberships resolves (data or null)
CreateChatLookup(u, ok) ==
    /\ chat[u].pc = "lookup"
    /\ LET existing == IF ok THEN ConversationsOfUser(u) ELSE {}
       IN chat' = [chat EXCEPT ![u].scan = existing,
                               ![u].failed = ~ok,
                               ![u].pc = IF existing = {} THEN "insertConv" ELSE "scan"]
    /\ UNCHANGED <<auth, storeVars, selected, group, sidebar, feed, lastEvent>>

\* members && members.length === 2 && members.some(m => m.user_id === otherUserId)
IsExistingDirect(ms, other) == Cardinality(ms) = 2 /\ other \in ms

\* one iteration of the for loop: the membership fetch of one conversation
\* resolves.  The rows come back in no stated order, so the next conversation
\* scanned is any of those left.
CreateChatScan(u, c, ok) ==
    /\ chat[u].pc = "scan"
    /\ c \in chat[u].scan
    /\ IF ok /\ IsExistingDirect(MembersOf(c), chat[u].other)
       THEN \* toast.info, onChatCreated(id), onOpenChange(false), finally
            /\ selected' = [selected EXCEPT ![u] = c]
            /\ chat' = [chat EXCEPT ![u] = ChatIdle]
       ELSE /\ chat' = [chat EXCEPT ![u].scan = @ \ {c},
                                    ![u].failed = @ \/ ~ok,
                                    ![u].pc = IF chat[u].scan = {c}
                                              THEN "insertConv" ELSE "scan"]
            /\ UNCHANGED selected
    /\ UNCHANGED <<auth, storeVars, group, sidebar, feed, lastEvent>>

\* insert into conversations (is_group false, created_by) .select().single()
CreateChatInsertConv(u, ok, t) ==
    /\ chat[u].pc = "insertConv"
    /\ IF ok
       THEN /\ Cardinality(conversations) < MaxConvs
            /\ Clock(t)
            /\ now' = t
            /\ conversations' = conversations \cup
                   {ConvRow(FreshConvId, NullName, FALSE, u, t)}
            /\ requested' = [requested EXCEPT ![FreshConvId] = {u, chat[u].other}]
            /\ chat' = [chat EXCEPT ![u].pc = "insertMembers", ![u].newId = FreshConvId]
            /\ sidebar' = ConversationsChanged(sidebar)
       ELSE \* throw convError; catch: toast.error; finally: setLoading(false)
            /\ t = now
            /\ chat' = [chat EXCEPT ![u] = [ChatIdle EXCEPT !.open = TRUE]]
            /\ UNCHANGED <<now, conversations, requested, sidebar>>
    /\ UNCHANGED <<auth, members, messages, selected, group, feed, lastEvent>>

\* the batch of the two membership rows (self, other)
DirectMemberBatch(c, u, other) == <<MemberRow(c, u), MemberRow(c, other)>>

\* the membership insert with no finally block after its catch
CreateChatInsertMembersNoFinally(u, ok) ==
    /\ chat[u].pc = "insertMembers"
    /\ IF ok /\ UniqueAllows(DirectMemberBatch(chat[u].newId, u, chat[u].other))
       THEN /\ members' = InsertMembers(DirectMemberBatch(chat[u].newId, u, chat[u].other))
            /\ selected' = [selected EXCEPT ![u] = chat[u].newId]
            /\ chat' = [chat EXCEPT ![u] = ChatIdle]
       ELSE /\ chat' = [chat EXCEPT ![u] = [ChatIdle EXCEPT !.open = TRUE,
                                                            !.loading = TRUE]]
            /\ UNCHANGED <<members, selected>>
    /\ UNCHANGED <<auth, now, conversations, messages, requested, group, sidebar, feed,
                   lastEvent>>

\* insert into conversation_members (the two rows), then
\* onChatCreated(newConversation.id), onOpenChange(false); on an error the
\* catch block shows a toast; finally setLoading(false)
CreateChatInsertMembers(u, ok) ==
    /\ chat[u].pc = "insertMembers"
    /\ IF ok /\ UniqueAllows(DirectMemberBatch(chat[u].newId, u, chat[u].other))
       THEN /\ members' = InsertMembers(DirectMemberBatch(chat[u].newId, u, chat[u].other))
            \* toast.success, onChatCreated(newConversation.id), onOpenChange(false)
            /\ selected' = [selected EXCEPT ![u] = chat[u].newId]
            /\ chat' = [chat EXCEPT ![u] = ChatIdle]
       ELSE /\ chat' = [chat EXCEPT ![u] = [ChatIdle EXCEPT !.open = TRUE]]
            /\ UNCHANGED <<members, selected>>
    /\ UNCHANGED <<auth, now, conversations, messages, requested, group, sidebar, feed,
                   lastEvent>>


\* --------------------------------------------------------- NewGroupDialog
\* useState: selectedUsers [], groupName "", loading false
GroupIdle == [open |-> FALSE, loading |-> FALSE, pc |-> "idle", groupName |-> <<>>,
              selectedUsers |-> <<>>, newId |-> NoConv]

SeqToSet(s) == {s[i] : i \in DOMAIN s}

\* prev.filter((id) => id !== userId)
Without(s, x) == SelectSeq(s, LAMBDA y : y # x)

\* Index: onNewGroup = () => setNewGroupOpen(true); the effect on `open`
\* resets the selection and the name
OpenNewGroup(u) ==
    /\ ~group[u].open
    /\ group[u].pc = "idle"
    /\ group' = [group EXCEPT ![u] = [GroupIdle EXCEPT !.open = TRUE]]
    /\ lastEvent' = "none"
    /\ UNCHANGED <<auth, storeVars, selected, chat, sidebar, feed>>

\* onChange of the name input.  An edit made while a call is in flight does
\* not reach that call (its closure holds the values of the click), so edits
\* are taken between calls.
SetGroupName(u, text) ==
    /\ group[u].open
    /\ group[u].pc = "idle"
    /\ text # group[u].groupName
    /\ group' = [group EXCEPT ![u].groupName = text]
    /\ lastEvent' = "none"
    /\ UNCHANGED <<auth, storeVars, selected, chat, sidebar, feed>>

\* toggleUser with a checkbox for every profile, the identity's own included
toggleUserAny(u, userId) ==
    /\ group[u].open
    /\ group[u].pc = "idle"
    /\ group' = [group EXCEPT ![u].selectedUsers =
                     IF userId \in SeqToSet(@) THEN Without(@, userId)
                     ELSE Append(@, userId)]
    /\ lastEvent' = "none"
    /\ UNCHANGED <<auth, storeVars, selected, chat, sidebar, feed>>

\* toggleUser: the checkboxes list the profiles with id # currentUserId
toggleUser(u, userId) ==
    /\ group[u].open
    /\ group[u].pc = "idle"
    /\ userId # u
    /\ group' = [group EXCEPT ![u].selectedUsers =
                     IF userId \in SeqToSet(@) THEN Without(@, userId)
                     ELSE Append(@, userId)]
    /\ lastEvent' = "none"
    /\ UNCHANGED <<auth, storeVars, selected, chat, sidebar, feed>>

\* the name compared without trim()
GroupNameMissingNoTrim(name) == name = <<>>

\* !groupName.trim()
GroupNameMissing(name) == Trim(name) = <<>>

\* selectedUsers.length < 1
NoUserSelected(sel) == Len(sel) < 1

\* handleCreateGroup up to its first await: the two validations, then
\* setLoading(true) and the conversation insert is issued
CreateGroupStart(u) ==
    /\ group[u].open
    /\ ~group[u].loading
    /\ group[u].pc = "idle"
    /\ IF GroupNameMissing(group[u].groupName)
       THEN \* toast.error("Please enter a group name"); return
            /\ lastEvent' = "groupNameMissing"
            /\ UNCHANGED group
       ELSE IF NoUserSelected(group[u].selectedUsers)
       THEN \* toast.error("Please select at least one user"); return
            /\ lastEvent' = "groupNoUsers"
            /\ UNCHANGED group
       ELSE /\ group' = [group EXCEPT ![u].loading = TRUE, ![u].pc = "insertConv"]
            /\ lastEvent' = "none"
    /\ UNCHANGED <<auth, storeVars, selected, chat, sidebar, feed>>

\* the batch without the row of the creator
GroupMemberBatchNoCreator(c, u, sel) == [i \in DOMAIN sel |-> MemberRow(c, sel[i])]

\* members = [self, ...selectedUsers]
GroupMemberBatch(c, u, sel) ==
    <<MemberRow(c, u)>> \o [i \in DOMAIN sel |-> MemberRow(c, sel[i])]

\* insert into conversations (name trimmed, is_group true, created_by)
CreateGroupInsertConv(u, ok, t) ==
    /\ group[u].pc = "insertConv"
    /\ IF ok
       THEN /\ Cardinality(conversations) < MaxConvs
            /\ Clock(t)
            /\ now' = t
            /\ conversations' = conversations \cup
                   {ConvRow(FreshConvId, Trim(group[u].groupName), TRUE, u, t)}
            /\ requested' = [requested EXCEPT ![FreshConvId] =
                                 {u} \cup SeqToSet(group[u].selectedUsers)]
            /\ group' = [group EXCEPT ![u].pc = "insertMembers", ![u].newId = FreshConvId]
            /\ sidebar' = ConversationsChanged(sidebar)
       ELSE \* throw convError; catch: toast.error; finally: setLoading(false)
            /\ t = now
            /\ group' = [group EXCEPT ![u].loading = FALSE, ![u].pc = "idle"]
            /\ UNCHANGED <<now, conversations, requested, sidebar>>
    /\ UNCHANGED <<auth, members, messages, selected, chat, feed, lastEvent>>

\* the membership insert whose catch block deletes the conversation row
CreateGroupInsertMembersUndo(u, ok) ==
    /\ group[u].pc = "insertMembers"
    /\ IF ok /\ UniqueAllows(GroupMemberBatch(group[u].newId, u, group[u].selectedUsers))
       THEN /\ members' = InsertMembers(
                   GroupMemberBatch(group[u].newId, u, group[u].selectedUsers))
            /\ selected' = [selected EXCEPT ![u] = group[u].newId]
            /\ group' = [group EXCEPT ![u].loading = FALSE, ![u].pc = "idle",
                                      ![u].open = FALSE, ![u].newId = NoConv]
            /\ UNCHANGED conversations
       ELSE /\ group' = [group EXCEPT ![u].loading = FALSE, ![u].pc = "idle",
                                      ![u].newId = NoConv]
            /\ conversations' = {c \in conversations : c.id # group[u].newId}
            /\ UNCHANGED <<members, selected>>
    /\ UNCHANGED <<auth, now, messages, requested, chat, sidebar, feed, lastEvent>>

\* insert into conversation_members (the batch), then onGroupCreated(id),
\* onOpenChange(false); finally setLoading(false)
CreateGroupInsertMembers(u, ok) ==
    /\ group[u].pc = "insertMembers"
    /\ IF ok /\ UniqueAllows(GroupMemberBatch(group[u].newId, u, group[u].selectedUsers))
       THEN /\ members' = InsertMembers(
                   GroupMemberBatch(group[u].newId, u, group[u].selectedUsers))
            /\ selected' = [selected EXCEPT ![u] = group[u].newId]
            /\ group' = [group EXCEPT ![u].loading = FALSE, ![u].pc = "idle",
                                      ![u].open = FALSE, ![u].newId = NoConv]
       ELSE /\ group' = [group EXCEPT ![u].loading = FALSE, ![u].pc = "idle",
                                      ![u].newId = NoConv]
            /\ UNCHANGED <<members, selected>>
    /\ UNCHANGED <<auth, now, conversations, messages, requested, chat, sidebar, feed,
                   lastEvent>>

\* ------------------------------------------------------------ ChatSidebar

\* a row of the sidebar: {...conv, other_user}
Summary(conv, other) ==
    [id |-> conv.id, name |-> conv.name, is_group |-> conv.is_group,
     updated_at |-> conv.updated_at, other_user |-> other]

\* the conversations query without its .order(...)
OrderAny(rows) == Listings(rows)

\* .order("updated_at", { ascending: false }): rows of equal updated_at come
\* in any order
OrderByUpdatedAtDesc(rows) ==
    {s \in Listings(rows) :
        \A i, j \in DOMAIN s : i < j => s[i].updated_at >= s[j].updated_at}

\* the other member resolved for a non-group row: members[0] of the rows with
\* user_id # currentUserId; none when there is no such row, or when the
\* members lookup or the profile lookup of the row fails
OtherUserChoices(conv, u, okRows) ==
    IF conv.is_group THEN {"none"}
    ELSE IF MembersOf(conv.id) \ {u} = {} THEN {"none"}
    ELSE IF okRows THEN MembersOf(conv.id) \ {u}
    ELSE {"none"} \cup (MembersOf(conv.id) \ {u})

\* loadConversations, first query: the caller's membership rows.  It runs on
\* mount and on every change event of the conversations table.
\* if (!memberData || memberData.length === 0) { setConversations([]); return }
LoadConversationsMembers(u, ok) ==
    /\ sidebar[u].pc = "idle"
    /\ LET memberData == IF ok THEN ConversationsOfUser(u) ELSE {}
       IN IF memberData = {}
          THEN sidebar' = [sidebar EXCEPT ![u].conversations = <<>>]
          ELSE sidebar' = [sidebar EXCEPT ![u].pc = "convs", ![u].ids = memberData]
    /\ UNCHANGED <<auth, storeVars, selected, chat, group, feed, lastEvent>>

\* the handler of the subscription, () => { loadConversations(); }, run for
\* the oldest waiting event, with the first query of the call it starts
OnConversationsChange(u, ok) ==
    /\ sidebar[u].channel
    /\ sidebar[u].notif > 0
    /\ sidebar[u].pc = "idle"
    /\ LET memberData == IF ok THEN ConversationsOfUser(u) ELSE {}
       IN IF memberData = {}
          THEN sidebar' = [sidebar EXCEPT ![u].conversations = <<>>,
                                          ![u].notif = @ - 1]
          ELSE sidebar' = [sidebar EXCEPT ![u].pc = "convs", ![u].ids = memberData,
                                          ![u].notif = @ - 1]
    /\ UNCHANGED <<auth, storeVars, selected, chat, group, feed, lastEvent>>

\* second query (.in("id", conversationIds), ordered), the per-row lookups of
\* the other member (okRows: none of them fails), then setConversations;
\* nothing is set when convData is null
LoadConversationsFetch(u, ok, okRows) ==
    /\ sidebar[u].pc = "convs"
    /\ IF ok
       THEN \E s \in OrderByUpdatedAtDesc({c \in conversations : c.id \in sidebar[u].ids}) :
            \E f \in [sidebar[u].ids -> Users \cup {"none"}] :
               /\ \A i \in DOMAIN s : f[s[i].id] \in OtherUserChoices(s[i], u, okRows)
               /\ sidebar' = [sidebar EXCEPT
                      ![u].conversations = [i \in DOMAIN s |-> Summary(s[i], f[s[i].id])],
                      ![u].pc = "idle", ![u].ids = {}]
       ELSE sidebar' = [sidebar EXCEPT ![u].pc = "idle", ![u].ids = {}]
    /\ UNCHANGED <<auth, storeVars, selected, chat, group, feed, lastEvent>>

\* ------------------------------------------------------------- ChatWindow
\* conversationInfo as displayed by the header: the columns of the row that
\* are shown and other_user; null is the record of no conversation
NullInfo == [id |-> NoConv, name |-> NullName, is_group |-> FALSE, other_user |-> "none"]

\* {...data, other_user}
InfoOf(conv, other) ==
    [id |-> conv.id, name |-> conv.name, is_group |-> conv.is_group, other_user |-> other]

\* useState: messages [], newMessage "", conversationInfo null, loading false.
\* conversationId is the value the effect ran for last, channels the
\* subscriptions it holds, notif the INSERT events waiting for its handler,
\* loads the loadMessages calls in flight (oldest first), infoLoads the
\* loadConversationInfo calls in flight.
FeedIdle == [conversationId |-> NoConv, channels |-> {}, notif |-> 0, loads |-> <<>>,
             messages |-> <<>>, info |-> NullInfo, infoLoads |-> <<>>,
             newMessage |-> <<>>, loading |-> FALSE, pc |-> "idle",
             sendConv |-> NoConv, content |-> <<>>]

LoadRequest(c) == [conv |-> c, phase |-> "sent", ok |-> FALSE, data |-> <<>>]

\* a loadConversationInfo call at its first await: the closure holds c
InfoRequest(c) == [conv |-> c, phase |-> "conv", data |-> NullInfo, other |-> "none"]

RemoveAt(s, i) == SubSeq(s, 1, i - 1) \o SubSeq(s, i + 1, Len(s))

\* select * from messages where conversation_id = c
MessagesOf(c) == {m \in messages : m.conversation_id = c}

\* the query without its .order(...)
OrderUnspecified(rows) == Listings(rows)

\* .order("created_at", { ascending: true }): rows of equal created_at come
\* in any order
OrderByCreatedAt(rows) ==
    {s \in Listings(rows) :
        \A i, j \in DOMAIN s : i < j => s[i].created_at <= s[j].created_at}

\* the effect without its cleanup: the channel of the previous run is kept
EffectRunNoCleanup(f, c) ==
    IF c = NoConv
    THEN [f EXCEPT !.conversationId = NoConv, !.messages = <<>>, !.info = NullInfo]
    ELSE [f EXCEPT !.conversationId = c, !.channels = @ \cup {c},
                   !.infoLoads = Append(@, InfoRequest(c)),
                   !.loads = Append(@, LoadRequest(c))]

\* useEffect(..., [conversationId]) run for the new value c of the prop: the
\* cleanup of the previous run removes its channel; then the early return on
\* null, or loadConversationInfo(), loadMessages() and the subscription to
\* INSERTs of c
EffectRun(f, c) ==
    IF c = NoConv
    THEN [f EXCEPT !.conversationId = NoConv, !.channels = {}, !.notif = 0,
                   !.messages = <<>>, !.info = NullInfo]
    ELSE [f EXCEPT !.conversationId = c, !.channels = {c}, !.notif = 0,
                   !.infoLoads = Append(@, InfoRequest(c)),
                   !.loads = Append(@, LoadRequest(c))]

\* ChatSidebar: onClick={() => onSelectConversation(conv.id)} on a row of the
\* list, rows being conversations the identity is a member of.  The click sets
\* Index.selectedConversationId; the render and the effect of ChatWindow run
\* before the next event is handled.
SelectConversation(u, c) ==
    /\ c \in ConversationsOfUser(u)
    /\ c # selected[u]
    /\ Len(feed[u].loads) < MaxInflight
    /\ Len(feed[u].infoLoads) < MaxInflight
    /\ selected' = [selected EXCEPT ![u] = c]
    /\ feed' = [feed EXCEPT ![u] = EffectRun(@, c)]
    /\ UNCHANGED <<auth, storeVars, chat, group, sidebar, lastEvent>>

\* loadConversationInfo, first await: select * from conversations where
\* id = conversationId, .single().  A null row, or a group, ends the call with
\* setConversationInfo(data); otherwise the members query is issued.
LoadInfoConv(u, i, ok) ==
    /\ i \in DOMAIN feed[u].infoLoads
    /\ feed[u].infoLoads[i].phase = "conv"
    /\ LET req == feed[u].infoLoads[i]
           rows == IF ok THEN {c \in conversations : c.id = req.conv} ELSE {}
       IN IF rows = {}
          THEN feed' = [feed EXCEPT ![u].info = NullInfo,
                                    ![u].infoLoads = RemoveAt(@, i)]
          ELSE \E data \in rows :
                  IF data.is_group
                  THEN feed' = [feed EXCEPT ![u].info = InfoOf(data, "none"),
                                            ![u].infoLoads = RemoveAt(@, i)]
                  ELSE feed' = [feed EXCEPT ![u].infoLoads[i] =
                                    [@ EXCEPT !.phase = "members",
                                              !.data = InfoOf(data, "none")]]
    /\ UNCHANGED <<auth, storeVars, selected, chat, group, sidebar, lastEvent>>

\* second await: the user_id of the members other than currentUserId.  With
\* no row (or no data) the call ends and sets nothing; otherwise the profile
\* of members[0] is asked for.
LoadInfoMembers(u, i, ok) ==
    /\ i \in DOMAIN feed[u].infoLoads
    /\ feed[u].infoLoads[i].phase = "members"
    /\ LET others == IF ok THEN MembersOf(feed[u].infoLoads[i].conv) \ {u} ELSE {}
       IN IF others = {}
          THEN feed' = [feed EXCEPT ![u].infoLoads = RemoveAt(@, i)]
          ELSE \E m \in others :
                  feed' = [feed EXCEPT ![u].infoLoads[i] =
                               [@ EXCEPT !.phase = "profile", !.other = m]]
    /\ UNCHANGED <<auth, storeVars, selected, chat, group, sidebar, lastEvent>>

\* third await: the profile (null when the lookup fails), then
\* setConversationInfo({...data, other_user: otherUser})
LoadInfoProfile(u, i, ok) ==
    /\ i \in DOMAIN feed[u].infoLoads
    /\ feed[u].infoLoads[i].phase = "profile"
    /\ LET req == feed[u].infoLoads[i]
       IN feed' = [feed EXCEPT
              ![u].info = [req.data EXCEPT !.other_user = IF ok THEN req.other ELSE "none"],
              ![u].infoLoads = RemoveAt(@, i)]
    /\ UNCHANGED <<auth, storeVars, selected, chat, group, sidebar, lastEvent>>

\* the channel's handler: (payload) => { loadMessages(); }
OnMessageInsert(u) ==
    /\ feed[u].notif > 0
    /\ Len(feed[u].loads) < MaxInflight
    /\ feed' = [feed EXCEPT ![u].notif = @ - 1,
                            ![u].loads = Append(@, LoadRequest(feed[u].conversationId))]
    /\ UNCHANGED <<auth, storeVars, selected, chat, group, sidebar, lastEvent>>

\* the backend runs the query of one loadMessages call
LoadMessagesQuery(u, i, ok) ==
    /\ i \in DOMAIN feed[u].loads
    /\ feed[u].loads[i].phase = "sent"
    /\ \E data \in (IF ok THEN OrderByCreatedAt(MessagesOf(feed[u].loads[i].conv))
                    ELSE {<<>>}) :
          feed' = [feed EXCEPT ![u].loads[i] =
                       [conv |-> @.conv, phase |-> "done", ok |-> ok, data |-> data]]
    /\ UNCHANGED <<auth, storeVars, selected, chat, group, sidebar, lastEvent>>

\* what the continuation of loadMessages leaves displayed:
\* if (data) { setMessages(data); }
AfterLoad(shown, req) == IF req.ok THEN req.data ELSE shown

\* the response of one loadMessages call reaches the client
LoadMessagesResolve(u, i) ==
    /\ i \in DOMAIN feed[u].loads
    /\ feed[u].loads[i].phase = "done"
    /\ feed' = [feed EXCEPT
           ![u].messages = AfterLoad(@, feed[u].loads[i]),
           ![u].loads = RemoveAt(@, i)]
    /\ UNCHANGED <<auth, storeVars, selected, chat, group, sidebar, lastEvent>>

\* onChange of the message input (disabled while loading)
SetNewMessage(u, text) ==
    /\ selected[u] # NoConv
    /\ ~feed[u].loading
    /\ text # feed[u].newMessage
    /\ feed' = [feed EXCEPT ![u].newMessage = text]
    /\ lastEvent' = "none"
    /\ UNCHANGED <<auth, storeVars, selected, chat, group, sidebar>>

\* the guard without its test of loading
SendRejectedWhileIdle(text, conversationId, loading) ==
    Trim(text) = <<>> \/ conversationId = NoConv

\* the guard with newMessage not trimmed
SendRejectedNoTrim(text, conversationId, loading) ==
    text = <<>> \/ conversationId = NoConv \/ loading

\* if (!newMessage.trim() || !conversationId || loading) return;
SendRejected(text, conversationId, loading) ==
    Trim(text) = <<>> \/ conversationId = NoConv \/ loading

MessageRow(id, c, u, content, t) ==
    [id |-> id, conversation_id |-> c, sender_id |-> u, content |-> content,
     created_at |-> t]

\* handleSendMessage up to its first await.  The form is rendered once a
\* conversation is selected; the handler reads the conversationId of that
\* render.
HandleSendMessage(u) ==
    /\ selected[u] # NoConv
    /\ IF SendRejected(feed[u].newMessage, selected[u], feed[u].loading)
       THEN /\ lastEvent' = IF Trim(feed[u].newMessage) = <<>>
                             THEN "sendBlank" ELSE "sendBusy"
            /\ UNCHANGED feed
       ELSE \* setLoading(true); the insert is issued
            /\ feed' = [feed EXCEPT ![u].loading = TRUE, ![u].pc = "insert",
                                    ![u].sendConv = selected[u],
                                    ![u].content = Trim(feed[u].newMessage)]
            /\ lastEvent' = "none"
    /\ UNCHANGED <<auth, storeVars, selected, chat, group, sidebar>>

\* the INSERT event reaches every channel subscribed to the conversation
Notified(f, c) ==
    [v \in DOMAIN f |-> IF c \in f[v].channels
                        THEN [f[v] EXCEPT !.notif = @ + 1] ELSE f[v]]

\* the insert whose failure still clears the input
HandleSendInsertClears(u, ok, t) ==
    /\ feed[u].pc = "insert"
    /\ IF ok
       THEN /\ Cardinality(messages) < MaxMsgs
            /\ Clock(t)
            /\ now' = t
            /\ messages' = messages \cup
                   {MessageRow(Cardinality(messages) + 1, feed[u].sendConv, u,
                               feed[u].content, t)}
            /\ feed' = Notified([feed EXCEPT ![u].pc = "update"], feed[u].sendConv)
            /\ UNCHANGED lastEvent
       ELSE /\ t = now
            /\ feed' = [feed EXCEPT ![u].pc = "idle", ![u].loading = FALSE,
                                    ![u].newMessage = <<>>,
                                    ![u].sendConv = NoConv, ![u].content = <<>>]
            /\ lastEvent' = "sendFailed"
            /\ UNCHANGED <<now, messages>>
    /\ UNCHANGED <<auth, conversations, members, requested, selected, chat, group, sidebar>>

\* insert into messages resolves
HandleSendInsert(u, ok, t) ==
    /\ feed[u].pc = "insert"
    /\ IF ok
       THEN /\ Cardinality(messages) < MaxMsgs
            /\ Clock(t)
            /\ now' = t
            /\ messages' = messages \cup
                   {MessageRow(Cardinality(messages) + 1, feed[u].sendConv, u,
                               feed[u].content, t)}
            /\ feed' = Notified([feed EXCEPT ![u].pc = "update"], feed[u].sendConv)
            /\ UNCHANGED lastEvent
       ELSE \* throw error; catch: toast.error; finally: setLoading(false)
            /\ t = now
            /\ feed' = [feed EXCEPT ![u].pc = "idle", ![u].loading = FALSE,
                                    ![u].sendConv = NoConv, ![u].content = <<>>]
            /\ lastEvent' = "sendFailed"
            /\ UNCHANGED <<now, messages>>
    /\ UNCHANGED <<auth, conversations, members, requested, selected, chat, group, sidebar>>

\* the update followed by a delete of the message when it fails
HandleSendUpdateUndo(u, ok, t) ==
    /\ feed[u].pc = "update"
    /\ IF ok
       THEN /\ Clock(t)
            /\ now' = t
            /\ conversations' =
                   {IF c.id = feed[u].sendConv THEN [c EXCEPT !.updated_at = t] ELSE c
                      : c \in conversations}
            /\ sidebar' = ConversationsChanged(sidebar)
            /\ UNCHANGED messages
       ELSE /\ t = now
            /\ messages' = {m \in messages : m.sender_id # u}
            /\ UNCHANGED <<now, conversations, sidebar>>
    /\ feed' = [feed EXCEPT ![u].pc = "idle", ![u].loading = FALSE,
                            ![u].newMessage = <<>>,
                            ![u].sendConv = NoConv, ![u].content = <<>>]
    /\ UNCHANGED <<auth, members, requested, selected, chat, group, lastEvent>>

\* update conversations set updated_at where id = conversationId resolves (its
\* result is not looked at); setNewMessage(""); finally setLoading(false)
HandleSendUpdate(u, ok, t) ==
    /\ feed[u].pc = "update"
    /\ IF ok
       THEN /\ Clock(t)
            /\ now' = t
            /\ conversations' =
                   {IF c.id = feed[u].sendConv THEN [c EXCEPT !.updated_at = t] ELSE c
                      : c \in conversations}
            /\ sidebar' = ConversationsChanged(sidebar)
       ELSE /\ t = now
            /\ UNCHANGED <<now, conversations, sidebar>>
    /\ feed' = [feed EXCEPT ![u].pc = "idle", ![u].loading = FALSE,
                            ![u].newMessage = <<>>,
                            ![u].sendConv = NoConv, ![u].content = <<>>]
    /\ UNCHANGED <<auth, members, messages, requested, selected, chat, group,
                   lastEvent>>

\* ------------------------------------------------------------------ Index
NoSession == "none"               \* session = null, and user = null
MaxStale == 2        \* checkAuth calls of torn-down pages still in flight

\* useState: user null, loading true.  session is the session the browser's
\* auth client holds, subscribed that the onAuthStateChange callback of this
\* page is registered, checking that the getSession() of its checkAuth is
\* awaited, stale the number of checkAuth calls of torn-down pages not yet
\* resolved.  signal records that the last step of the page called
\* navigate("/auth").
AuthRecord(session, mounted, user, loading) ==
    [session |-> session, mounted |-> mounted, subscribed |-> mounted,
     user |-> user, loading |-> loading, checking |-> loading, stale |-> 0,
     signal |-> "none"]

\* the page as the components of this model see it: mounted, signed in as u,
\* checkAuth done
SignedIn(u) == AuthRecord(u, TRUE, u, FALSE)

\* <Index /> mounts: fresh state, then the effect calls checkAuth() and
\* registers the callback
IndexMount(u) ==
    /\ ~auth[u].mounted
    /\ auth[u].stale < MaxStale
    /\ auth' = [auth EXCEPT ![u] = [@ EXCEPT !.mounted = TRUE, !.subscribed = TRUE,
                                             !.user = NoSession, !.loading = TRUE,
                                             !.checking = TRUE, !.signal = "none"]]
    /\ UNCHANGED <<storeVars, selected, chat, group, sidebar, feed, lastEvent>>

\* (event, session) => { if (!session) navigate("/auth"); else setUser(session.user) }
OnAuthStateChange(a, s) ==
    IF s = NoSession THEN [a EXCEPT !.signal = "unauthenticated"]
    ELSE [a EXCEPT !.user = s, !.signal = "none"]

\* the auth client of the browser of u changes its session to s (sign in,
\* sign out, token refresh) and notifies the callbacks registered with it
AuthStateChange(u, s) ==
    /\ auth' = [auth EXCEPT ![u] =
                   IF @.subscribed
                   THEN OnAuthStateChange([@ EXCEPT !.session = s], s)
                   ELSE [@ EXCEPT !.session = s, !.signal = "none"]]
    /\ UNCHANGED <<storeVars, selected, chat, group, sidebar, feed, lastEvent>>

\* checkAuth of the mounted page: getSession() resolves, then navigate or
\* setUser, then setLoading(false)
CheckAuthResolve(u) ==
    /\ auth[u].mounted
    /\ auth[u].checking
    /\ auth' = [auth EXCEPT ![u] =
                   [OnAuthStateChange(@, @.session) EXCEPT !.loading = FALSE,
                                                           !.checking = FALSE]]
    /\ UNCHANGED <<storeVars, selected, chat, group, sidebar, feed, lastEvent>>

\* checkAuth of a page torn down before its getSession() resolved: navigate is
\* still called on a null session, the state setters have no page to act on
StaleCheckAuthResolve(u) ==
    /\ auth[u].stale > 0
    /\ auth' = [auth EXCEPT ![u] =
                   [@ EXCEPT !.stale = @ - 1,
                             !.signal = IF auth[u].session = NoSession
                                        THEN "unauthenticated" ELSE "none"]]
    /\ UNCHANGED <<storeVars, selected, chat, group, sidebar, feed, lastEvent>>

\* the page torn down with its callback left registered
IndexUnmountKeepsCallback(u) ==
    /\ auth[u].mounted
    /\ auth' = [auth EXCEPT ![u] =
                   [@ EXCEPT !.mounted = FALSE,
                             !.stale = IF auth[u].checking THEN @ + 1 ELSE @,
                             !.checking = FALSE, !.signal = "none"]]
    /\ UNCHANGED <<storeVars, selected, chat, group, sidebar, feed, lastEvent>>

\* <Index /> unmounts (the route is left): the cleanup of the effect calls
\* subscription.unsubscribe(); a checkAuth in flight is not cancelled
IndexUnmount(u) ==
    /\ auth[u].mounted
    /\ auth' = [auth EXCEPT ![u] =
                   [@ EXCEPT !.mounted = FALSE, !.subscribed = FALSE,
                             !.stale = IF auth[u].checking THEN @ + 1 ELSE @,
                             !.checking = FALSE, !.signal = "none"]]
    /\ UNCHANGED <<storeVars, selected, chat, group, sidebar, feed, lastEvent>>

\* --------------------------------------------------------- specifications
\* the state after the pages mount: an empty store, nothing selected
Init ==
    /\ now = 1
    /\ conversations = {}
    /\ members = {}
    /\ messages = {}
    /\ requested = [c \in ConvIds |-> {}]
    /\ selected = [u \in Clients |-> NoConv]
    /\ chat = [u \in Clients |-> ChatIdle]
    /\ group = [u \in Clients |-> GroupIdle]
    /\ sidebar = [u \in Clients |-> SidebarIdle]
    /\ feed = [u \in Clients |-> FeedIdle]
    /\ lastEvent = "none"
    /\ auth = [u \in Clients |-> SignedIn(u)]

\* ---- direct conversations: handleCreateChat calls of two clients,
\* interleaved at their awaits
Callers == {"u1", "u2"}

NextDirect ==
    \/ \E u \in Callers : OpenNewChat(u)
    \/ \E u \in Callers, other \in Users : CreateChatStart(u, other)
    \/ \E u \in Callers, ok \in BOOLEAN : CreateChatLookup(u, ok)
    \/ \E u \in Callers, c \in ConvIds, ok \in BOOLEAN : CreateChatScan(u, c, ok)
    \/ \E u \in Callers, ok \in BOOLEAN, t \in 1..MaxTime : CreateChatInsertConv(u, ok, t)
    \/ \E u \in Callers, ok \in BOOLEAN : CreateChatInsertMembers(u, ok)

SpecDirect == Init /\ [][NextDirect]_vars

\* the same calls over a backend none of whose calls fails
NextDirectOk ==
    \/ \E u \in Callers : OpenNewChat(u)
    \/ \E u \in Callers, other \in Users : CreateChatStart(u, other)
    \/ \E u \in Callers : CreateChatLookup(u, TRUE)
    \/ \E u \in Callers, c \in ConvIds : CreateChatScan(u, c, TRUE)
    \/ \E u \in Callers, t \in 1..MaxTime : CreateChatInsertConv(u, TRUE, t)
    \/ \E u \in Callers : CreateChatInsertMembers(u, TRUE)

SpecDirectOk == Init /\ [][NextDirectOk]_vars

\* ---- groups: handleCreateGroup calls of one client, loadConversations of
\* the sidebar of another
Creators == {"u1"}
Listers == {"u2"}

NextGroup ==
    \/ \E u \in Creators : OpenNewGroup(u)
    \/ \E u \in Creators, text \in Texts : SetGroupName(u, text)
    \/ \E u \in Creators, x \in Users : toggleUser(u, x)
    \/ \E u \in Creators : CreateGroupStart(u)
    \/ \E u \in Creators, ok \in BOOLEAN, t \in 1..MaxTime : CreateGroupInsertConv(u, ok, t)
    \/ \E u \in Creators, ok \in BOOLEAN : CreateGroupInsertMembers(u, ok)
    \/ \E u \in Listers, ok \in BOOLEAN : LoadConversationsMembers(u, ok)
    \/ \E u \in Listers, ok, okRows \in BOOLEAN : LoadConversationsFetch(u, ok, okRows)

SpecGroup == Init /\ [][NextGroup]_vars

\* ---- the message feed: the ChatWindow of one client selects and loads
\* while two other clients send.
\* The store holds a group of all three (1) and a direct conversation of u1
\* and u2 (2), both created by u1 and without messages.  u2 and u3 have been
\* handed conversation 1 by a dialog and have typed a message.
\* The loadConversationInfo calls a selection issues are not answered within
\* these behaviours (SpecHeaderOk answers them), which holds a viewer to
\* MaxInflight selections.
Viewers == {"u1"}
Senders == {"u2", "u3"}
Typed == <<" ", "P", " ">>

InitFeed ==
    /\ now = 1
    /\ conversations = {ConvRow(1, <<"P">>, TRUE, "u1", 1),
                        ConvRow(2, NullName, FALSE, "u1", 1)}
    /\ members = Stored(GroupMemberBatch(1, "u1", <<"u2", "u3">>), 0)
                 \cup Stored(DirectMemberBatch(2, "u1", "u2"), 3)
    /\ messages = {}
    /\ requested = [c \in ConvIds |-> MembersOf(c)]
    /\ selected = [u \in Clients |-> IF u \in Senders THEN 1 ELSE NoConv]
    /\ chat = [u \in Clients |-> ChatIdle]
    /\ group = [u \in Clients |-> GroupIdle]
    /\ sidebar = [u \in Clients |-> SidebarIdle]
    /\ feed = [u \in Clients |-> IF u \in Senders
                                  THEN [FeedIdle EXCEPT !.newMessage = Typed]
                                  ELSE FeedIdle]
    /\ lastEvent = "none"
    /\ auth = [u \in Clients |-> SignedIn(u)]

NextFeed ==
    \/ \E u \in Viewers, c \in ConvIds : SelectConversation(u, c)
    \/ \E u \in Viewers : OnMessageInsert(u)
    \/ \E u \in Viewers, i \in 1..MaxInflight, ok \in BOOLEAN : LoadMessagesQuery(u, i, ok)
    \/ \E u \in Viewers, i \in 1..MaxInflight : LoadMessagesResolve(u, i)
    \/ \E u \in Senders : HandleSendMessage(u)
    \/ \E u \in Senders, ok \in BOOLEAN, t \in 1..MaxTime : HandleSendInsert(u, ok, t)
    \/ \E u \in Senders, ok \in BOOLEAN, t \in 1..MaxTime : HandleSendUpdate(u, ok, t)

SpecFeed == InitFeed /\ [][NextFeed]_vars

\* the same feed over a backend none of whose calls fails
NextFeedOk ==
    \/ \E u \in Viewers, c \in ConvIds : SelectConversation(u, c)
    \/ \E u \in Viewers : OnMessageInsert(u)
    \/ \E u \in Viewers, i \in 1..MaxInflight : LoadMessagesQuery(u, i, TRUE)
    \/ \E u \in Viewers, i \in 1..MaxInflight : LoadMessagesResolve(u, i)
    \/ \E u \in Senders : HandleSendMessage(u)
    \/ \E u \in Senders, t \in 1..MaxTime : HandleSendInsert(u, TRUE, t)
    \/ \E u \in Senders, t \in 1..MaxTime : HandleSendUpdate(u, TRUE, t)

SpecFeedOk == InitFeed /\ [][NextFeedOk]_vars

\* the same again with the viewer staying on the group conversation: every
\* loadMessages it issues is for the one conversation
NextFeedSame ==
    \/ \E u \in Viewers : SelectConversation(u, 1)
    \/ \E u \in Viewers : OnMessageInsert(u)
    \/ \E u \in Viewers, i \in 1..MaxInflight : LoadMessagesQuery(u, i, TRUE)
    \/ \E u \in Viewers, i \in 1..MaxInflight : LoadMessagesResolve(u, i)
    \/ \E u \in Senders : HandleSendMessage(u)
    \/ \E u \in Senders, t \in 1..MaxTime : HandleSendInsert(u, TRUE, t)
    \/ \E u \in Senders, t \in 1..MaxTime : HandleSendUpdate(u, TRUE, t)

SpecFeedSame == InitFeed /\ [][NextFeedSame]_vars

\* ---- sending: the ChatWindow of one client selects the group, loads, types
\* and sends, over the same store
Chatters == {"u1"}

InitSend ==
    /\ now = 1
    /\ conversations = {ConvRow(1, <<"P">>, TRUE, "u1", 1),
                        ConvRow(2, NullName, FALSE, "u1", 1)}
    /\ members = Stored(GroupMemberBatch(1, "u1", <<"u2", "u3">>), 0)
                 \cup Stored(DirectMemberBatch(2, "u1", "u2"), 3)
    /\ messages = {}
    /\ requested = [c \in ConvIds |-> MembersOf(c)]
    /\ selected = [u \in Clients |-> NoConv]
    /\ chat = [u \in Clients |-> ChatIdle]
    /\ group = [u \in Clients |-> GroupIdle]
    /\ sidebar = [u \in Clients |-> SidebarIdle]
    /\ feed = [u \in Clients |-> FeedIdle]
    /\ lastEvent = "none"
    /\ auth = [u \in Clients |-> SignedIn(u)]

NextSend ==
    \/ \E u \in Chatters : SelectConversation(u, 1)
    \/ \E u \in Chatters : OnMessageInsert(u)
    \/ \E u \in Chatters, i \in 1..MaxInflight, ok \in BOOLEAN : LoadMessagesQuery(u, i, ok)
    \/ \E u \in Chatters, i \in 1..MaxInflight : LoadMessagesResolve(u, i)
    \/ \E u \in Chatters, text \in Texts : SetNewMessage(u, text)
    \/ \E u \in Chatters : HandleSendMessage(u)
    \/ \E u \in Chatters, ok \in BOOLEAN, t \in 1..MaxTime : HandleSendInsert(u, ok, t)
    \/ \E u \in Chatters, ok \in BOOLEAN, t \in 1..MaxTime : HandleSendUpdate(u, ok, t)

SpecSend == InitSend /\ [][NextSend]_vars

\* ---- the list: the sidebar of u2, a member of both conversations, reloads
\* while u2 and u3 send to the group
NextList ==
    \/ \E u \in Listers, ok \in BOOLEAN : LoadConversationsMembers(u, ok)
    \/ \E u \in Listers, ok, okRows \in BOOLEAN : LoadConversationsFetch(u, ok, okRows)
    \/ \E u \in Senders : HandleSendMessage(u)
    \/ \E u \in Senders, ok \in BOOLEAN, t \in 1..MaxTime : HandleSendInsert(u, ok, t)
    \/ \E u \in Senders, ok \in BOOLEAN, t \in 1..MaxTime : HandleSendUpdate(u, ok, t)

SpecList == InitFeed /\ [][NextList]_vars

\* ---- the three operations with a loading flag, called by one client (chats
\* with u2, groups named "P" with u2 selected or not, messages " P "); every
\* backend call is answered in the end, with data or with an error, and the
\* server clock stands still
Actors == {"u1"}

ChatCallStep(u) ==
    \/ \E ok \in BOOLEAN : CreateChatLookup(u, ok)
    \/ \E c \in ConvIds, ok \in BOOLEAN : CreateChatScan(u, c, ok)
    \/ \E ok \in BOOLEAN : CreateChatInsertConv(u, ok, now)
    \/ \E ok \in BOOLEAN : CreateChatInsertMembers(u, ok)

GroupCallStep(u) ==
    \/ \E ok \in BOOLEAN : CreateGroupInsertConv(u, ok, now)
    \/ \E ok \in BOOLEAN : CreateGroupInsertMembers(u, ok)

SendCallStep(u) ==
    \/ \E ok \in BOOLEAN : HandleSendInsert(u, ok, now)
    \/ \E ok \in BOOLEAN : HandleSendUpdate(u, ok, now)

\* the dialogs are modal: one is open at a time, and the message form is out of
\* reach behind an open dialog
NoDialog(u) == ~chat[u].open /\ ~group[u].open

NextOps ==
    \/ \E u \in Actors : NoDialog(u) /\ OpenNewChat(u)
    \/ \E u \in Actors : CreateChatStart(u, "u2")
    \/ \E u \in Actors : ChatCallStep(u)
    \/ \E u \in Actors : NoDialog(u) /\ OpenNewGroup(u)
    \/ \E u \in Actors : SetGroupName(u, Typed)
    \/ \E u \in Actors : toggleUser(u, "u2")
    \/ \E u \in Actors : CreateGroupStart(u)
    \/ \E u \in Actors : GroupCallStep(u)
    \/ \E u \in Actors : NoDialog(u) /\ SetNewMessage(u, Typed)
    \/ \E u \in Actors : NoDialog(u) /\ HandleSendMessage(u)
    \/ \E u \in Actors : SendCallStep(u)

SpecOps ==
    /\ Init
    /\ [][NextOps]_vars
    /\ \A u \in Actors : /\ WF_vars(ChatCallStep(u))
                         /\ WF_vars(GroupCallStep(u))
                         /\ WF_vars(SendCallStep(u))

\* ---- the header: the ChatWindow of one client switches between the two
\* conversations while its loadConversationInfo and loadMessages calls are
\* answered in any order, none of them failing
NextHeaderOk ==
    \/ \E u \in Chatters, c \in ConvIds : SelectConversation(u, c)
    \/ \E u \in Chatters, i \in 1..MaxInflight : LoadInfoConv(u, i, TRUE)
    \/ \E u \in Chatters, i \in 1..MaxInflight : LoadInfoMembers(u, i, TRUE)
    \/ \E u \in Chatters, i \in 1..MaxInflight : LoadInfoProfile(u, i, TRUE)
    \/ \E u \in Chatters, i \in 1..MaxInflight : LoadMessagesQuery(u, i, TRUE)
    \/ \E u \in Chatters, i \in 1..MaxInflight : LoadMessagesResolve(u, i)

SpecHeaderOk == InitSend /\ [][NextHeaderOk]_vars

\* ---- the session: the Index page of two browsers mounts and unmounts while
\* the auth client of each signs identities in and out
Visitors == {"u1", "u2"}

\* nobody is signed in and no page is mounted
InitSession ==
    /\ now = 1
    /\ conversations = {}
    /\ members = {}
    /\ messages = {}
    /\ requested = [c \in ConvIds |-> {}]
    /\ selected = [u \in Clients |-> NoConv]
    /\ chat = [u \in Clients |-> ChatIdle]
    /\ group = [u \in Clients |-> GroupIdle]
    /\ sidebar = [u \in Clients |-> SidebarIdle]
    /\ feed = [u \in Clients |-> FeedIdle]
    /\ lastEvent = "none"
    /\ auth = [u \in Clients |-> AuthRecord(NoSession, FALSE, NoSession, FALSE)]

NextSession ==
    \/ \E u \in Visitors : IndexMount(u)
    \/ \E u \in Visitors, s \in Users \cup {NoSession} : AuthStateChange(u, s)
    \/ \E u \in Visitors : CheckAuthResolve(u)
    \/ \E u \in Visitors : StaleCheckAuthResolve(u)
    \/ \E u \in Visitors : IndexUnmount(u)

SpecSession == InitSession /\ [][NextSession]_vars

\* ---- both dialogs: one client creates groups named "P" while another starts
\* direct conversations; the server clock stands still
Starters == {"u2"}

NextCreate ==
    \/ \E u \in Creators : OpenNewGroup(u)
    \/ \E u \in Creators : SetGroupName(u, Typed)
    \/ \E u \in Creators, x \in Users : toggleUser(u, x)
    \/ \E u \in Creators : CreateGroupStart(u)
    \/ \E u \in Creators, ok \in BOOLEAN : CreateGroupInsertConv(u, ok, now)
    \/ \E u \in Creators, ok \in BOOLEAN : CreateGroupInsertMembers(u, ok)
    \/ \E u \in Starters : OpenNewChat(u)
    \/ \E u \in Starters, other \in Users : CreateChatStart(u, other)
    \/ \E u \in Starters, ok \in BOOLEAN : CreateChatLookup(u, ok)
    \/ \E u \in Starters, c \in ConvIds, ok \in BOOLEAN : CreateChatScan(u, c, ok)
    \/ \E u \in Starters, ok \in BOOLEAN : CreateChatInsertConv(u, ok, now)
    \/ \E u \in Starters, ok \in BOOLEAN : CreateChatInsertMembers(u, ok)

SpecCreate == Init /\ [][NextCreate]_vars

\* ---- the creator's list: one client creates chats with u2 and groups named
\* "P" with u2 selected or not, while its sidebar, mounted over the empty
\* store, handles the change events one by one; no backend call fails and the
\* server clock stands still
InitReload ==
    /\ now = 1
    /\ conversations = {}
    /\ members = {}
    /\ messages = {}
    /\ requested = [c \in ConvIds |-> {}]
    /\ selected = [u \in Clients |-> NoConv]
    /\ chat = [u \in Clients |-> ChatIdle]
    /\ group = [u \in Clients |-> GroupIdle]
    /\ sidebar = [u \in Clients |-> IF u \in Actors
                                     THEN [SidebarIdle EXCEPT !.channel = TRUE]
                                     ELSE SidebarIdle]
    /\ feed = [u \in Clients |-> FeedIdle]
    /\ lastEvent = "none"
    /\ auth = [u \in Clients |-> SignedIn(u)]

NextReload ==
    \/ \E u \in Actors : NoDialog(u) /\ OpenNewChat(u)
    \/ \E u \in Actors : CreateChatStart(u, "u2")
    \/ \E u \in Actors : CreateChatLookup(u, TRUE)
    \/ \E u \in Actors, c \in ConvIds : CreateChatScan(u, c, TRUE)
    \/ \E u \in Actors : CreateChatInsertConv(u, TRUE, now)
    \/ \E u \in Actors : CreateChatInsertMembers(u, TRUE)
    \/ \E u \in Actors : NoDialog(u) /\ OpenNewGroup(u)
    \/ \E u \in Actors : SetGroupName(u, Typed)
    \/ \E u \in Actors, x \in Users : toggleUser(u, x)
    \/ \E u \in Actors : CreateGroupStart(u)
    \/ \E u \in Actors : CreateGroupInsertConv(u, TRUE, now)
    \/ \E u \in Actors : CreateGroupInsertMembers(u, TRUE)
    \/ \E u \in Actors : OnConversationsChange(u, TRUE)
    \/ \E u \in Actors : LoadConversationsFetch(u, TRUE, TRUE)

SpecReload == InitReload /\ [][NextReload]_vars

\* ------------------------------------------------------------- properties

\* C1: under any interleaving of handleCreateChat calls, the store never
\* holds two non-group conversations whose membership is the same pair {A, B}.
C1_OneDirectPerPair ==
    \A c1, c2 \in conversations :
        (/\ ~c1.is_group
         /\ ~c2.is_group
         /\ Cardinality(MembersOf(c1.id)) = 2
         /\ MembersOf(c1.id) = MembersOf(c2.id)) => c1.id = c2.id

\* C2: a handleCreateChat call that begins when a direct conversation of the
\* pair is complete inserts no conversation row, and the id it hands to
\* onChatCreated is the id of that conversation.
C2_LaterCallSameId ==
    [][\A u \in Clients :
          chat[u].known # {} =>
             /\ ~(chat[u].pc = "insertConv" /\ chat'[u].pc = "insertMembers")
             /\ (chat[u].loading /\ ~chat'[u].loading /\ ~chat'[u].open
                    => \A c \in chat[u].known : selected'[u] = c)]_vars

\* C3: once every loadMessages response has been delivered, the rows
\* displayed are rows of the conversation the ChatWindow is showing.
C3_ShowsSelected ==
    \A v \in Clients :
        (feed[v].conversationId # NoConv /\ feed[v].loads = <<>>) =>
            \A i \in DOMAIN feed[v].messages :
                feed[v].messages[i].conversation_id = feed[v].conversationId

ShownTimes(v, m) ==
    Cardinality({i \in DOMAIN feed[v].messages : feed[v].messages[i].id = m.id})

\* C4: when two identities have each sent a message to the conversation a
\* viewer has selected, and every INSERT event has been handled and every
\* reload has resolved, the viewer displays both messages, each once.
C4_BothShownOnce ==
    \A v \in Clients : \A m1, m2 \in messages :
        (/\ m1.sender_id # m2.sender_id
         /\ m1.conversation_id = feed[v].conversationId
         /\ m2.conversation_id = feed[v].conversationId
         /\ feed[v].notif = 0
         /\ feed[v].loads = <<>>)
        => ShownTimes(v, m1) = 1 /\ ShownTimes(v, m2) = 1

\* the handleCreateChat / handleCreateGroup call that inserted conversation c
\* is between its two inserts
BeingCreated(c) ==
    \E u \in Clients : \/ chat[u].pc = "insertMembers" /\ chat[u].newId = c
                       \/ group[u].pc = "insertMembers" /\ group[u].newId = c

\* C5: every non-group conversation whose handleCreateChat call has ended,
\* the membership insert having failed or not, has exactly two membership
\* rows: the creator's and the other user's.
C5_DirectHasTwoMembers ==
    \A c \in conversations :
        (~c.is_group /\ ~BeingCreated(c.id)) =>
            /\ Cardinality(MembersOf(c.id)) = 2
            /\ MembersOf(c.id) = requested[c.id]

\* C6: every group conversation whose handleCreateGroup call has ended has
\* one membership row for the creator and one for each selected member.
C6_GroupHasAllMembers ==
    \A c \in conversations :
        (c.is_group /\ ~BeingCreated(c.id)) =>
            /\ MembersOf(c.id) = requested[c.id]
            /\ Cardinality(MembersOf(c.id)) = Cardinality(requested[c.id] \ {c.created_by}) + 1

\* a group whose handleCreateGroup call completed (its batch is stored)
CompletedGroups == {c \in conversations : c.is_group /\ MembersOf(c.id) # {}}

\* C7: a group whose creation completed has one membership row per selected
\* member plus the creator's; a loadConversations of a member that reads its
\* memberships afterwards fetches the group, and the list it sets holds the
\* group with is_group and its name.
C7_MembersInv ==
    \A c \in CompletedGroups :
        /\ MembersOf(c.id) = requested[c.id]
        /\ c.created_by \in MembersOf(c.id)

C7_LoadStep ==
    \A u \in Clients :
        /\ (sidebar[u].pc = "idle" /\ sidebar'[u].pc = "convs") =>
               \A c \in CompletedGroups : u \in requested[c.id] => c.id \in sidebar'[u].ids
        /\ (sidebar[u].pc = "convs" /\ sidebar'[u].pc = "idle") =>
               \/ sidebar'[u].conversations = sidebar[u].conversations
               \/ \A c \in conversations : c.id \in sidebar[u].ids =>
                      \E i \in DOMAIN sidebar'[u].conversations :
                          /\ sidebar'[u].conversations[i].id = c.id
                          /\ sidebar'[u].conversations[i].is_group = c.is_group
                          /\ sidebar'[u].conversations[i].name = c.name

C7_GroupListed == []C7_MembersInv /\ [][C7_LoadStep]_vars

\* u1 created the group "P" with u2 and u3 selected and u2's list shows it
C7_Witness ==
    \E c \in conversations :
        /\ c.is_group /\ c.name = <<"P">> /\ c.created_by = "u1"
        /\ MembersOf(c.id) = {"u1", "u2", "u3"}
        /\ Cardinality({m \in members : m.conversation_id = c.id}) = 3
        /\ \E i \in DOMAIN sidebar["u2"].conversations :
               /\ sidebar["u2"].conversations[i].id = c.id
               /\ sidebar["u2"].conversations[i].is_group
               /\ sidebar["u2"].conversations[i].name = <<"P">>

\* C8: the message list a ChatWindow displays is in non-decreasing created_at
\* order in every reachable state.
C8_DisplayedOrdered ==
    \A v \in Clients : \A i, j \in DOMAIN feed[v].messages :
        i < j => feed[v].messages[i].created_at <= feed[v].messages[j].created_at

\* two messages of different created_at are displayed, the later one sent by
\* u2 and the earlier one by u3
C8_Witness ==
    \E v \in Clients :
        /\ Len(feed[v].messages) = 2
        /\ feed[v].messages[1].created_at < feed[v].messages[2].created_at
        /\ feed[v].messages[1].sender_id = "u3"
        /\ feed[v].messages[2].sender_id = "u2"

\* C9: a handleSendMessage call whose newMessage is empty after trim() issues
\* no insert and no update, and leaves the loading flag and the displayed
\* messages as they were.
C9_BlankSendRejected ==
    [][\A u \in Clients :
          (HandleSendMessage(u) /\ Trim(feed[u].newMessage) = <<>>) =>
             /\ UNCHANGED <<now, conversations, members, messages>>
             /\ feed'[u].pc = feed[u].pc
             /\ feed'[u].loading = feed[u].loading
             /\ feed'[u].messages = feed[u].messages]_vars

\* a whitespace-only message was submitted while nothing was being sent, with
\* a message displayed, and was rejected
C9_Witness ==
    \E u \in Clients :
        /\ lastEvent = "sendBlank"
        /\ feed[u].newMessage = <<" ">>
        /\ selected[u] # NoConv
        /\ ~feed[u].loading
        /\ feed[u].pc = "idle"
        /\ feed[u].messages # <<>>

\* C10: a handleCreateGroup call whose name is empty after trim(), or with no
\* user selected, inserts no conversation row and no membership row, leaves
\* the selected conversation as it was and does not set the loading flag.
C10_InvalidGroupRejected ==
    [][\A u \in Clients :
          (/\ CreateGroupStart(u)
           /\ (Trim(group[u].groupName) = <<>> \/ Len(group[u].selectedUsers) = 0)) =>
             /\ UNCHANGED <<now, conversations, members, selected>>
             /\ ~group'[u].loading
             /\ group'[u].pc = "idle"]_vars

\* a whitespace-only name with users selected was submitted and rejected
C10_Witness ==
    \E u \in Clients :
        /\ lastEvent = "groupNameMissing"
        /\ group[u].groupName = <<" ">>
        /\ Len(group[u].selectedUsers) = 2
        /\ ~group[u].loading

\* C11: a loadConversations call one of whose queries fails (the membership
\* query, the identity having memberships, or the conversations query) leaves
\* the list the sidebar holds as it was.
C11_ListKeptOnFailure ==
    [][\A u \in Clients :
          (\/ LoadConversationsMembers(u, FALSE) /\ ConversationsOfUser(u) # {}
           \/ \E okRows \in BOOLEAN : LoadConversationsFetch(u, FALSE, okRows))
          => sidebar'[u].conversations = sidebar[u].conversations]_vars

\* C12: a handleCreateChat call one of whose lookup queries failed (the query
\* for the caller's memberships or a per-conversation membership fetch) inserts
\* no conversation row and no membership row.
C12_FailedLookupAbandons ==
    [][\A u \in Clients :
          (chat[u].failed /\ chat'[u] # chat[u]) =>
              UNCHANGED <<conversations, members>>]_vars

\* C13: when the loadMessages call issued for the conversation now selected
\* comes back without data, the window displays no message of another
\* conversation afterwards.
C13_EmptyOnFailedLoad ==
    [][\A v \in Clients, i \in 1..MaxInflight :
          (/\ i \in DOMAIN feed[v].loads
           /\ feed[v].loads[i].phase = "done"
           /\ ~feed[v].loads[i].ok
           /\ feed[v].loads[i].conv = feed[v].conversationId
           /\ LoadMessagesResolve(v, i))
          => \A k \in DOMAIN feed'[v].messages :
                 feed'[v].messages[k].conversation_id = feed[v].conversationId]_vars

\* C14: in every state where no loadConversationInfo call is in flight, the
\* header displayed is the one of the conversation the window is showing: a
\* late response for the conversation selected before has not replaced it.
C14_HeaderOfSelected ==
    \A v \in Clients :
        (feed[v].conversationId # NoConv /\ feed[v].infoLoads = <<>>) =>
            feed[v].info.id = feed[v].conversationId

\* C15, in every state: a ChatWindow whose selection is made on the sidebar
\* holds at most one INSERT subscription, for the selected conversation, and
\* none when nothing is selected.
C15_Scoped ==
    \A v \in Viewers :
        /\ feed[v].conversationId = selected[v]
        /\ Cardinality(feed[v].channels) <= 1
        /\ feed[v].channels =
               IF selected[v] = NoConv THEN {} ELSE {selected[v]}

\* C15, in every step: an INSERT event reaches a window only for a message of
\* the conversation it shows, a selection change drops the events still
\* waiting, and every loadMessages issued is for the conversation shown.
C15_NoStaleReload ==
    \A v \in Viewers :
        /\ feed'[v].notif > feed[v].notif =>
               \E m \in messages' \ messages :
                   m.conversation_id = feed[v].conversationId
        /\ feed'[v].conversationId # feed[v].conversationId => feed'[v].notif = 0
        /\ Len(feed'[v].loads) > Len(feed[v].loads) =>
               feed'[v].loads[Len(feed'[v].loads)].conv = feed'[v].conversationId

C16_FlagMeansInFlight ==
    \A u \in Clients :
        /\ feed[u].loading <=> feed[u].pc # "idle"
        /\ chat[u].loading <=> chat[u].pc # "idle"
        /\ group[u].loading <=> group[u].pc # "idle"

\* C16: handleSendMessage, handleCreateChat and handleCreateGroup clear the
\* loading flag they set on every exit path, so that, every backend call being
\* answered, a flag that is set is cleared in the end and no flag is set with
\* no call in flight.
C16_LoadingCleared ==
    /\ []C16_FlagMeansInFlight
    /\ \A u \in Actors :
          /\ feed[u].loading ~> ~feed[u].loading
          /\ chat[u].loading ~> ~chat[u].loading
          /\ group[u].loading ~> ~group[u].loading

\* handleCreateChat left through its catch block (the conversation it inserted
\* has no member and the dialog is still open) with the flag cleared, after a
\* group was created and a message sent
C16_Witness ==
    /\ \E c \in conversations :
          ~c.is_group /\ MembersOf(c.id) = {} /\ ~BeingCreated(c.id)
    /\ chat["u1"].open /\ ~chat["u1"].loading
    /\ \E c \in conversations : c.is_group /\ MembersOf(c.id) # {}
    /\ ~group["u1"].loading
    /\ messages # {}
    /\ ~feed["u1"].loading

\* C17, the failing update: the step leaves the message rows and every
\* conversation row as they were and ends the call.
C17_FailedUpdateStep ==
    \A u \in Clients :
        (\E t \in 1..MaxTime : HandleSendUpdate(u, FALSE, t)) =>
            /\ messages' = messages
            /\ conversations' = conversations
            /\ feed'[u].pc = "idle"

\* C17, the later update: updated_at of a conversation changes only in the
\* step of a send to it whose update succeeds.
C17_UpdatedBySend ==
    \A c \in conversations, d \in conversations' :
        (d.id = c.id /\ d.updated_at # c.updated_at) =>
            \E u \in Clients, t \in 1..MaxTime :
                /\ HandleSendUpdate(u, TRUE, t)
                /\ feed[u].sendConv = c.id
                /\ d.updated_at = t

\* C17: when the update of updated_at fails after the message insert
\* succeeded, the message stays stored, it is not sent again, and updated_at
\* keeps its value until the update of a later send succeeds.
C17_MessageKept == [][C17_FailedUpdateStep /\ C17_UpdatedBySend]_vars

\* u2's message was stored at time 2 and its call has ended, with the group's
\* updated_at still 1
C17_Witness ==
    /\ \E m \in messages :
          m.sender_id = "u2" /\ m.conversation_id = 1 /\ m.created_at = 2
    /\ feed["u2"].pc = "idle"
    /\ feed["u2"].newMessage = <<>>
    /\ \E c \in conversations : c.id = 1 /\ c.updated_at = 1

\* C18: when the message insert fails the call ends there: no update of
\* updated_at is issued, the draft stays in the input and the displayed
\* messages and the store are as before.
C18_FailedInsertFrame ==
    [][\A u \in Clients :
          (\E t \in 1..MaxTime : HandleSendInsert(u, FALSE, t)) =>
             /\ feed'[u].pc = "idle"
             /\ feed'[u].newMessage = feed[u].newMessage
             /\ feed'[u].messages = feed[u].messages
             /\ UNCHANGED <<conversations, messages>>]_vars

\* a second send failed at its insert: the draft is in the input and the
\* message of the first send is displayed
C18_Witness ==
    \E u \in Chatters :
        /\ lastEvent = "sendFailed"
        /\ feed[u].newMessage = Typed
        /\ Len(feed[u].messages) = 1
        /\ Cardinality(messages) = 1
        /\ feed[u].pc = "idle"

\* C19: when the membership insert of handleCreateChat or handleCreateGroup
\* fails after the conversation insert succeeded, the conversation row stays
\* in the store with no membership row, the selected conversation is as it
\* was and the dialog stays open.
C19_OrphanKept ==
    [][\A u \in Clients :
          /\ CreateChatInsertMembers(u, FALSE) =>
                /\ \E c \in conversations' : c.id = chat[u].newId
                /\ conversations' = conversations
                /\ members' = members
                /\ selected' = selected
                /\ chat'[u].open
          /\ CreateGroupInsertMembers(u, FALSE) =>
                /\ \E c \in conversations' : c.id = group[u].newId
                /\ conversations' = conversations
                /\ members' = members
                /\ selected' = selected
                /\ group'[u].open]_vars

\* the group u1 asked for is stored without a member, nothing is selected and
\* the dialog is open with the name and the selection as typed
C19_Witness ==
    /\ \E c \in conversations :
          /\ c.is_group /\ c.created_by = "u1"
          /\ MembersOf(c.id) = {} /\ ~BeingCreated(c.id)
    /\ group["u1"].open
    /\ group["u1"].groupName = Typed
    /\ group["u1"].selectedUsers = <<"u2">>
    /\ ~group["u1"].loading
    /\ selected["u1"] = NoConv

\* C20, the membership query: a loadConversations call whose first query
\* succeeds goes on with exactly the conversations the identity has a
\* membership row for (and sets the empty list when there is none).
C20_MembershipStep ==
    \A u \in Clients :
        (sidebar[u].pc = "idle" /\ LoadConversationsMembers(u, TRUE)) =>
            IF ConversationsOfUser(u) = {}
            THEN sidebar'[u].conversations = <<>>
            ELSE sidebar'[u].ids = ConversationsOfUser(u)

\* C20, the list set when no query fails: one entry per conversation of the
\* membership query, with the row's updated_at, most recent first, a non-group
\* entry carrying a member other than the identity.
C20_ListStep ==
    \A u \in Clients :
        LoadConversationsFetch(u, TRUE, TRUE) =>
            LET list == sidebar'[u].conversations
            IN /\ {list[i].id : i \in DOMAIN list} = sidebar[u].ids
               /\ Len(list) = Cardinality(sidebar[u].ids)
               /\ \A i \in DOMAIN list :
                     \E c \in conversations :
                         /\ c.id = list[i].id
                         /\ c.updated_at = list[i].updated_at
                         /\ c.is_group = list[i].is_group
               /\ \A i, j \in DOMAIN list :
                     i < j => list[i].updated_at >= list[j].updated_at
               /\ \A i \in DOMAIN list :
                     ~list[i].is_group =>
                         /\ list[i].other_user # u
                         /\ list[i].other_user \in MembersOf(list[i].id)

\* C20: loadConversations lists exactly the conversations the identity has a
\* membership row for, ordered by updated_at descending, each non-group entry
\* with the profile of a member other than the identity.
C20_ListOfMemberships == [][C20_MembershipStep /\ C20_ListStep]_vars

\* u2's list: the group, updated at time 2 by a send, before the direct
\* conversation with u1, updated at time 1
C20_Witness ==
    LET list == sidebar["u2"].conversations
    IN /\ Len(list) = 2
       /\ list[1].id = 1 /\ list[1].is_group /\ list[1].updated_at = 2
       /\ list[2].id = 2 /\ ~list[2].is_group /\ list[2].updated_at = 1
       /\ list[2].other_user = "u1"
       /\ ConversationsOfUser("u2") = {1, 2}

\* C21, in every state: the callback is registered exactly while the page is
\* mounted.
C21_SubscribedWhileMounted ==
    \A u \in Clients : auth[u].subscribed <=> auth[u].mounted

\* C21, in every session-change event: on a mounted page a cleared session
\* calls navigate("/auth") and leaves the held identity, any other session
\* makes its identity the held one and signals nothing; on a torn-down page
\* the held identity stays and nothing is signalled.
C21_EventStep ==
    \A u \in Clients, s \in Users \cup {NoSession} :
        AuthStateChange(u, s) =>
            IF auth[u].mounted
            THEN IF s = NoSession
                 THEN auth'[u].signal = "unauthenticated" /\ auth'[u].user = auth[u].user
                 ELSE auth'[u].user = s /\ auth'[u].signal = "none"
            ELSE auth'[u].user = auth[u].user /\ auth'[u].signal = "none"

\* C21: on every session-change event the page signals unauthenticated when
\* the session is cleared and otherwise holds the identity of the event; once
\* the page is torn down its subscription is released and no later event
\* changes the held identity or signals anything.
C21_SessionFollowed == []C21_SubscribedWhileMounted /\ [][C21_EventStep]_vars

\* the page of u1's browser held u1 from an event (its checkAuth had not
\* resolved), was torn down, and the session then became u2's
C21_Witness ==
    /\ ~auth["u1"].mounted
    /\ auth["u1"].loading
    /\ auth["u1"].user = "u1"
    /\ auth["u1"].session = "u2"

\* C22: in every state no two stored membership rows have the same
\* (conversation, user) pair, and the batch a handleCreateChat or
\* handleCreateGroup call has submitted holds no pair twice and no pair the
\* store already holds.
C22_NoDuplicateMembership ==
    /\ \A m1, m2 \in members :
           (m1.conversation_id = m2.conversation_id /\ m1.user_id = m2.user_id)
               => m1 = m2
    /\ \A u \in Clients :
           /\ chat[u].pc = "insertMembers" =>
                  LET batch == DirectMemberBatch(chat[u].newId, u, chat[u].other)
                  IN /\ \A i, j \in DOMAIN batch : i # j => batch[i] # batch[j]
                     /\ SeqToSet(batch) \cap
                            {MemberRow(m.conversation_id, m.user_id) : m \in members} = {}
           /\ group[u].pc = "insertMembers" =>
                  LET batch == GroupMemberBatch(group[u].newId, u, group[u].selectedUsers)
                  IN /\ \A i, j \in DOMAIN batch : i # j => batch[i] # batch[j]
                     /\ SeqToSet(batch) \cap
                            {MemberRow(m.conversation_id, m.user_id) : m \in members} = {}

\* the group of u1 with u2 and u3 and the direct conversation of u2 and u1
\* are stored, five membership rows in all
C22_Witness ==
    /\ \E c \in conversations :
          c.is_group /\ Cardinality({m \in members : m.conversation_id = c.id}) = 3
    /\ \E c \in conversations :
          /\ ~c.is_group /\ c.created_by = "u2"
          /\ Cardinality({m \in members : m.conversation_id = c.id}) = 2
    /\ Cardinality(members) = 5

\* C23: the conversation id a handleCreateChat call hands to onChatCreated is
\* the id of a non-group conversation; a group whose members are exactly the
\* caller and the other user is not taken for their direct conversation.
C23_ReturnsNonGroup ==
    [][\A u \in Clients :
          (chat[u].loading /\ ~chat'[u].loading /\ ~chat'[u].open) =>
              \E c \in conversations : c.id = selected'[u] /\ ~c.is_group]_vars

\* C24: once a handleCreateGroup call, or a handleCreateChat call that
\* inserted a conversation, has completed, and every change event has been
\* handled and every loadConversations call has resolved, the list of the
\* creator's sidebar holds the new conversation.
C24_CreatorListsNew ==
    \A u \in Clients : \A c \in conversations :
        (/\ sidebar[u].channel
         /\ c.created_by = u
         /\ u \in MembersOf(c.id)
         /\ ~BeingCreated(c.id)
         /\ sidebar[u].notif = 0
         /\ sidebar[u].pc = "idle")
        => \E i \in DOMAIN sidebar[u].conversations :
               sidebar[u].conversations[i].id = c.id

\* C25, the submit: a handleSendMessage call made while the send before it is
\* in flight changes neither the store nor the call in flight.
C25_BusySubmitStep ==
    \A u \in Clients :
        (HandleSendMessage(u) /\ feed[u].pc # "idle") =>
            /\ UNCHANGED <<messages, conversations, members>>
            /\ feed'[u] = feed[u]

\* C25, the rows: a message row appears only in the step in which the insert
\* of a call in flight succeeds, one row, with the sender, conversation and
\* content of that call.
C25_RowStep ==
    messages' # messages =>
        \E u \in Clients :
            /\ feed[u].pc = "insert" /\ feed'[u].pc = "update"
            /\ messages \subseteq messages'
            /\ Cardinality(messages' \ messages) = 1
            /\ \A m \in messages' \ messages :
                   /\ m.sender_id = u
                   /\ m.conversation_id = feed[u].sendConv
                   /\ m.content = feed[u].content

\* C25, in every state: a sender who typed one message and submits it any
\* number of times has at most one message row, and a call is in flight only
\* with the loading flag set.
C25_OneRow ==
    \A u \in Senders :
        /\ Cardinality({m \in messages : m.sender_id = u}) <= 1
        /\ feed[u].pc # "idle" => feed[u].loading

\* C25: a ChatWindow has at most one handleSendMessage call in flight; a
\* submit made while a send has not finished issues no insert and no update,
\* so one submit gives at most one message row.
C25_OneSendInFlight ==
    []C25_OneRow /\ [][C25_BusySubmitStep /\ C25_RowStep]_vars

\* u2 submitted again while its send was in flight and was turned away; the
\* send has ended with one message row of u2, and u3 has sent nothing
C25_Witness ==
    /\ lastEvent = "sendBusy"
    /\ feed["u2"].pc = "idle"
    /\ Cardinality({m \in messages : m.sender_id = "u2"}) = 1
    /\ {m \in messages : m.sender_id = "u3"} = {}

====
